---- MODULE Spec2Model ----
(***************************************************************************)
(* Model of the N-Queens benchmark driver (benchmark.py) and of the text   *)
(* summary of its results (visualize.py).                                  *)
(*                                                                         *)
(* Time is counted in integer units.  One CSV time cell ("%.8f") resolves  *)
(* PrecUnits units, one second is TicksPerSec cells, so a second is        *)
(* UnitsPerSec units.  The real values (10^8 cells per second, a 300 s     *)
(* timeout) are scaled down; every formula is stated in terms of the       *)
(* names, not of the scaled values.                                        *)
(***************************************************************************)
EXTENDS Integers, Sequences, FiniteSets, TLC

\* ------------------------------------------------------------------ bounds
PrecUnits == 2
TicksPerSec == 2
TIMEOUT == 3
MaxInt == 1
MaxLines == 2
NumModels == 2

UnitsPerSec == TicksPerSec * PrecUnits
TimeoutUnits == TIMEOUT * UnitsPerSec

\* Python's None, for the optional fields of a stats dictionary.
None == -1

\* ----------------------------------------------------------------- catalog
AllModels ==
    << [file |-> "01_naive.mzn",  desc |-> "Naif (contraintes binaires)"],
       [file |-> "02_global.mzn", desc |-> "Contraintes globales"],
       [file |-> "03_ff_min.mzn", desc |-> "First-Fail + Min"],
       [file |-> "04_ff_max.mzn", desc |-> "First-Fail + Max"] >>

MODELS == SubSeq(AllModels, 1, NumModels)

N_VALUES == << 8, 10 >>

ModelFiles == { MODELS[i].file : i \in 1..Len(MODELS) }
Sizes == { N_VALUES[j] : j \in 1..Len(N_VALUES) }

\* ------------------------------------------------------- captured text
(* A line of the captured stdout is described by what the scan looks at:   *)
(*   has     the key substrings the line contains ("nodes", "failures",    *)
(*           "fails", "propagations", "propagates" in line.lower(),        *)
(*           "solveTime" in the line itself);                              *)
(*   tok     the text between the first and the second '=' of the line;    *)
(*   markers the number of occurrences of 'Q = ' in the line.              *)
(* A token is  NoEq  (the line has no '=', so split('=')[1] raises),       *)
(*             Int k (a decimal integer),                                  *)
(*             Frac u (a decimal with a fraction: u units, below a second),*)
(*             Ms k  (an integer followed by "ms"),                        *)
(*             Bad   (anything else).                                      *)
NoEq == [kind |-> "NoEq", v |-> 0]
Bad == [kind |-> "Bad", v |-> 0]
IntTok(k) == [kind |-> "Int", v |-> k]
FracTok(u) == [kind |-> "Frac", v |-> u]
MsTok(k) == [kind |-> "Ms", v |-> k]

Tokens ==
    {NoEq, Bad, FracTok(1)} \cup { IntTok(k) : k \in 0..MaxInt }
        \cup { MsTok(k) : k \in 1..MaxInt }

Line(has, tok, markers) == [has |-> has, tok |-> tok, markers |-> markers]

\* int(line.split('=')[1].strip()): the value, or an exception.
IntOf(tok) ==
    IF tok.kind = "Int" THEN [ok |-> TRUE, v |-> tok.v]
    ELSE [ok |-> FALSE, v |-> 0]

\* float(line.split('=')[1].strip().replace('ms', '')): a number of
\* seconds, in units, or an exception.  "12ms" becomes 12.0: the suffix is
\* dropped and the number is not rescaled.
FloatOf(tok) ==
    CASE tok.kind = "Int"  -> [ok |-> TRUE, v |-> tok.v * UnitsPerSec]
      [] tok.kind = "Ms"   -> [ok |-> TRUE, v |-> tok.v * UnitsPerSec]
      [] tok.kind = "Frac" -> [ok |-> TRUE, v |-> tok.v]
      [] OTHER             -> [ok |-> FALSE, v |-> 0]

\* The branch of the if/elif chain that a line takes, "" for none.
MatchKey(line) ==
    IF "nodes" \in line.has THEN "nodes"
    ELSE IF "failures" \in line.has \/ "fails" \in line.has THEN "failures"
    ELSE IF "propagations" \in line.has \/ "propagates" \in line.has
         THEN "propagations"
    ELSE IF "solveTime" \in line.has THEN "time"
    ELSE ""

\* a handler that clears the field of the key
ClearOnParseError(st, k) == [st EXCEPT ![k] = None]

\* What a handler of the scan does with a token that does not parse under
\* key k: "except: pass" leaves the field as it is.
OnParseError(st, k) == st

\* One iteration of "for line in stderr_lines".
ScanLine(st, line) ==
    LET k == MatchKey(line) IN
    IF k = "" THEN st
    ELSE LET r == IF k = "time" THEN FloatOf(line.tok) ELSE IntOf(line.tok) IN
         IF r.ok THEN [st EXCEPT ![k] = r.v] ELSE OnParseError(st, k)

RECURSIVE ScanFrom(_, _, _)
ScanFrom(st, lines, i) ==
    IF i > Len(lines) THEN st
    ELSE ScanFrom(ScanLine(st, lines[i]), lines, i + 1)

RECURSIVE CountMarkers(_)
\* result.stdout.count('Q = ')
CountMarkers(lines) ==
    IF lines = << >> THEN 0
    ELSE lines[1].markers + CountMarkers(Tail(lines))

\* ------------------------------------------------------------ one run
(* What subprocess.run does: it returns a completed process (return code,  *)
(* stdout, stderr) after `elapsed` units on the runner's clock, or raises  *)
(* TimeoutExpired, or raises another exception (the executable is missing).*)
Completed(rc, out, errT, el) ==
    [kind |-> "completed", returncode |-> rc, stdout |-> out,
     stderrTimeout |-> errT, elapsed |-> el]
Expired ==
    [kind |-> "expired", returncode |-> 0, stdout |-> << >>,
     stderrTimeout |-> FALSE, elapsed |-> 0]
Failed ==
    [kind |-> "exception", returncode |-> 0, stdout |-> << >>,
     stderrTimeout |-> FALSE, elapsed |-> 0]

\* stats as initialised after the process returned
InitialStats(elapsed_time) ==
    [status |-> "UNKNOWN", time |-> elapsed_time, nodes |-> None,
     failures |-> None, propagations |-> None, solutions |-> 0]

\* a slip of the comparison: > for >=
TimeoutTestStrict(raw) ==
    raw.stderrTimeout \/ raw.elapsed > (TIMEOUT - 1) * UnitsPerSec

\* 'TIMEOUT' in result.stderr or elapsed_time >= timeout - 1
TimeoutTest(raw) ==
    raw.stderrTimeout \/ raw.elapsed >= (TIMEOUT - 1) * UnitsPerSec

\* a slip of the chain: the markers are counted whatever the return code
ClassifyCountFirst(st, raw) ==
    LET c == [st EXCEPT !.solutions = CountMarkers(raw.stdout)] IN
    IF raw.returncode = 0 /\ CountMarkers(raw.stdout) > 0
    THEN [c EXCEPT !.status = "SAT"]
    ELSE IF raw.returncode = 0 THEN [c EXCEPT !.status = "UNSAT"]
    ELSE IF TimeoutTest(raw) THEN [c EXCEPT !.status = "TIMEOUT"]
    ELSE [c EXCEPT !.status = "ERROR"]

\* the if/elif chain that sets status and solutions
Classify(st, raw) ==
    IF raw.returncode = 0 /\ CountMarkers(raw.stdout) > 0
    THEN [st EXCEPT !.status = "SAT", !.solutions = CountMarkers(raw.stdout)]
    ELSE IF raw.returncode = 0 THEN [st EXCEPT !.status = "UNSAT"]
    ELSE IF TimeoutTest(raw) THEN [st EXCEPT !.status = "TIMEOUT"]
    ELSE [st EXCEPT !.status = "ERROR"]

\* except subprocess.TimeoutExpired
TimeoutStats ==
    [status |-> "TIMEOUT", time |-> TimeoutUnits, nodes |-> None,
     failures |-> None, propagations |-> None, solutions |-> 0]

\* except Exception
ErrorStats ==
    [status |-> "ERROR", time |-> None, nodes |-> None,
     failures |-> None, propagations |-> None, solutions |-> 0]

run_minizinc(raw) ==
    CASE raw.kind = "expired"   -> TimeoutStats
      [] raw.kind = "exception" -> ErrorStats
      [] OTHER ->
           Classify(ScanFrom(InitialStats(raw.elapsed), raw.stdout, 1), raw)

\* -------------------------------------------------------------- CSV rows
(* A CSV cell is a string: << >> is the empty string, << k >> the decimal  *)
(* text of k.  A time cell << k >> is the text of k cells of 10^-8 s,      *)
(* that is of k * PrecUnits units.                                         *)
Empty == << >>

\* f"{t:.8f}": t rounded to the nearest cell, a tie to the even one.
FormatTime(t) ==
    LET q == t \div PrecUnits
        r == t % PrecUnits
    IN  IF 2 * r < PrecUnits THEN q
        ELSE IF 2 * r > PrecUnits THEN q + 1
        ELSE IF q % 2 = 0 THEN q ELSE q + 1

\* 'Time(s)': f"{stats['time']:.8f}" if stats['time'] is not None else ''
TimeCell(t) == IF t # None THEN << FormatTime(t) >> ELSE Empty

\* 'Nodes': stats['nodes'] if stats['nodes'] is not None else ''
OptCell(v) == IF v # None THEN << v >> ELSE Empty

\* the dictionary handed to writer.writerow
SerializeRow(m, n, st) ==
    [Model |-> MODELS[m].file, Description |-> MODELS[m].desc, N |-> << n >>,
     Status |-> st.status, Time |-> TimeCell(st.time),
     Nodes |-> OptCell(st.nodes), Failures |-> OptCell(st.failures),
     Propagations |-> OptCell(st.propagations),
     Solutions |-> << st.solutions >>]

\* float(x['Time(s)']), in units
FloatCell(c) == c[1] * PrecUnits

\* int(best['Nodes']) if best['Nodes'] else 0
ReadNodes(row) == IF row.Nodes # Empty THEN row.Nodes[1] ELSE 0

\* ------------------------------------------------------------------ state
VARIABLES
    modelExists,   \* the model files present in MODELS_DIR
    dataExists,    \* the sizes n whose data file n<n>.dzn is present
    pc,            \* the position of main (or of the scan)
    mi, ni,        \* the indices of the two for-loops of main
    raw,           \* what subprocess.run did for the current run
    stats,         \* the stats dictionary of the current run
    li,            \* the index of the next line of the scan
    pending,       \* rows written to csvfile and not yet flushed
    disk,          \* rows flushed to the results file
    skipped,       \* the RunSpecs passed over by a `continue`
    summary,       \* what generate_summary / generate_summary_table report
    procs          \* the external processes of the runs

vars ==
    << modelExists, dataExists, pc, mi, ni, raw, stats, li, pending, disk,
       skipped, summary, procs >>

NoSummary == [best |-> << >>, ranking |-> << >>, tbest |-> << >>, table |-> << >>]

\* ------------------------------------------------------------------ inputs
Marker == Line({}, Bad, 1)
TwoMarkers == Line({}, Bad, 2)
Other == Line({}, NoEq, 0)

\* the lines of the runs of RunSpec: markers, node counts, solver times
RunLines ==
    {Marker, TwoMarkers, Other,
     Line({"nodes"}, IntTok(0), 0), Line({"nodes"}, Bad, 0),
     Line({"solveTime"}, IntTok(0), 0), Line({"solveTime"}, FracTok(1), 0),
     Line({"solveTime"}, MsTok(1), 0), Line({"solveTime"}, Bad, 0)}

SeqsUpTo(S, n) == UNION { [1..k -> S] : k \in 0..n }

Elapsed ==
    {0, 1, (TIMEOUT - 1) * UnitsPerSec - 1, (TIMEOUT - 1) * UnitsPerSec,
     TimeoutUnits - 1, TimeoutUnits}

RunRaws ==
    { Completed(rc, out, e, el) :
        rc \in {0, 1}, out \in SeqsUpTo(RunLines, MaxLines),
        e \in BOOLEAN, el \in Elapsed }
    \cup {Expired, Failed}

\* the runs of the batch: two solved ones, an unsolved one, a killed one and
\* one that could not be launched
BatchRaws ==
    {Completed(0, << Marker >>, FALSE, PrecUnits),
     Completed(0, << Marker >>, FALSE, 2 * PrecUnits),
     Completed(0, << Other >>, FALSE, 1),
     Expired, Failed}

\* -------------------------------------------------------------- processes
(* procs counts what the runs have started: child is the process of        *)
(* subprocess.run, alive or not; desc says that the child has started a    *)
(* process of its own (minizinc runs the solver as one) that is alive;     *)
(* orphans counts the descendants of finished runs that are still alive;   *)
(* launches counts the calls of subprocess.run.                            *)
NoProcs == [child |-> FALSE, desc |-> FALSE, orphans |-> 0, launches |-> 0]

\* subprocess.run(cmd, capture_output=True, text=True, timeout=timeout)
\* starts the child, in the process group of the runner
Started(p) == [p EXCEPT !.child = TRUE, !.launches = @ + 1]

\* the timeout of subprocess.run expires: it kills the child (Popen.kill)
\* and waits for it; a descendant is not signalled and goes on alone
OnTimeoutExpired(p) ==
    [p EXCEPT !.child = FALSE, !.desc = FALSE,
              !.orphans = @ + (IF p.desc THEN 1 ELSE 0)]

\* the child exits by itself, its output read to the end: its descendants
\* are gone with it
OnExit(p) == [p EXCEPT !.child = FALSE, !.desc = FALSE]

\* the processes after subprocess.run ended the way r
AfterRun(p, r) ==
    IF r.kind = "expired" THEN OnTimeoutExpired(p) ELSE OnExit(p)

\* ------------------------------------------------------------------- main
Init ==
    /\ modelExists \in SUBSET ModelFiles
    /\ dataExists \in SUBSET Sizes
    /\ pc = "loop"
    /\ mi = 1
    /\ ni = 1
    /\ raw = Failed
    /\ stats = ErrorStats
    /\ li = 0
    /\ pending = << >>
    /\ disk = << >>
    /\ skipped = 0
    /\ summary = NoSummary
    /\ procs = NoProcs

\* model_path.exists()
ModelPathExists(m) == MODELS[m].file \in modelExists

\* the check of the data file left out
DataPathUnchecked(n) == TRUE

\* data_path.exists()
DataPathExists(n) == n \in dataExists

\* the next position of the loops after the run at (mi, ni)
Advance ==
    IF ni < Len(N_VALUES) THEN mi' = mi /\ ni' = ni + 1
    ELSE mi' = mi + 1 /\ ni' = 1

\* if not model_path.exists(): continue
SkipModel ==
    /\ pc = "loop"
    /\ mi <= Len(MODELS)
    /\ ni = 1
    /\ ~ModelPathExists(mi)
    /\ mi' = mi + 1
    /\ skipped' = skipped + Len(N_VALUES)
    /\ UNCHANGED procs
    /\ UNCHANGED << modelExists, dataExists, pc, ni, raw, stats, li, pending,
                    disk, summary >>

\* if not data_path.exists(): continue
SkipData ==
    /\ pc = "loop"
    /\ mi <= Len(MODELS)
    /\ ModelPathExists(mi)
    /\ ~DataPathExists(N_VALUES[ni])
    /\ Advance
    /\ skipped' = skipped + 1
    /\ UNCHANGED procs
    /\ UNCHANGED << modelExists, dataExists, pc, raw, stats, li, pending,
                    disk, summary >>

\* run_minizinc is entered and subprocess.run starts the solver
Launch ==
    /\ pc = "loop"
    /\ mi <= Len(MODELS)
    /\ ModelPathExists(mi)
    /\ DataPathExists(N_VALUES[ni])
    /\ pc' = "running"
    /\ procs' = Started(procs)
    /\ UNCHANGED << modelExists, dataExists, mi, ni, raw, stats, li, pending,
                    disk, skipped, summary >>

\* subprocess.run ends one of the ways of S and run_minizinc returns
Return(S) ==
    /\ pc = "running"
    /\ \E r \in S :
         /\ r.kind = "exception" => ~procs.desc
         /\ raw' = r
         /\ stats' = run_minizinc(r)
         /\ procs' = AfterRun(procs, r)
    /\ pc' = "returned"
    /\ UNCHANGED << modelExists, dataExists, mi, ni, li, pending, disk,
                    skipped, summary >>

\* writer.writerow({...})
WriteRow ==
    /\ pc = "returned"
    /\ pending' = Append(pending, SerializeRow(mi, N_VALUES[ni], stats))
    /\ pc' = "written"
    /\ UNCHANGED procs
    /\ UNCHANGED << modelExists, dataExists, mi, ni, raw, stats, li, disk,
                    skipped, summary >>

\* the flush left out: the rows stay in the buffer
NotFlushed == [disk |-> disk, pending |-> pending]

\* what csvfile.flush() leaves on disk and in the buffer
Flushed == [disk |-> disk \o pending, pending |-> << >>]

\* csvfile.flush(), and the loops move on
Flush ==
    /\ pc = "written"
    /\ disk' = Flushed.disk
    /\ pending' = Flushed.pending
    /\ Advance
    /\ pc' = "loop"
    /\ UNCHANGED procs
    /\ UNCHANGED << modelExists, dataExists, raw, stats, li, skipped,
                    summary >>

\* the loops are over: the with-block closes the file
CloseFile ==
    /\ pc = "loop"
    /\ mi > Len(MODELS)
    /\ disk' = disk \o pending
    /\ pending' = << >>
    /\ pc' = "summary"
    /\ UNCHANGED procs
    /\ UNCHANGED << modelExists, dataExists, mi, ni, raw, stats, li, skipped,
                    summary >>

\* ---------------------------------------------------------------- summary
\* r['Status'] == 'SAT' and r['Time(s)']
SatTimed(r) == r.Status = "SAT" /\ r.Time # Empty

RECURSIVE SelectFrom(_, _, _)
\* the indices of the rows that a list comprehension keeps, in row order,
\* from index i on; keep[i] is its condition on rows[i]
SelectFrom(rows, keep, i) ==
    IF i > Len(rows) THEN << >>
    ELSE IF keep[i] THEN << i >> \o SelectFrom(rows, keep, i + 1)
    ELSE SelectFrom(rows, keep, i + 1)

\* [r for r in rows if ...], as indices of rows
Select(rows, keep) == SelectFrom(rows, keep, 1)

\* a slip of min(): a later candidate wins a tie
BetterOrEqual(rows, i, best) ==
    FloatCell(rows[i].Time) <= FloatCell(rows[best].Time)

\* how min() decides that a later candidate replaces the best so far
Better(rows, i, best) == FloatCell(rows[i].Time) < FloatCell(rows[best].Time)

RECURSIVE MinFrom(_, _, _, _)
\* min(n_rows, key=lambda x: float(x['Time(s)'])), as an index of rows
MinFrom(rows, cand, k, best) ==
    IF k > Len(cand) THEN best
    ELSE MinFrom(rows, cand, k + 1,
                 IF Better(rows, cand[k], best) THEN cand[k] ELSE best)

\* the best row of size n, as an index of rows; 0 is "Aucune solution"
BestOf(rows, n) ==
    LET InN == [i \in 1..Len(rows) |-> rows[i].N = << n >> /\ SatTimed(rows[i])]
        cand == Select(rows, InN)
    IN  IF cand = << >> THEN 0 ELSE MinFrom(rows, cand, 2, cand[1])

RECURSIVE SumTimes(_, _, _)
\* sum(float(r['Time(s)']) for r in model_rows), in units
SumTimes(rows, cand, k) ==
    IF k > Len(cand) THEN 0
    ELSE FloatCell(rows[cand[k]].Time) + SumTimes(rows, cand, k + 1)

\* a slip of the sort key: the sums are compared, not the means
SumLess(a, b) ==
    IF a.cnt = 0 THEN FALSE
    ELSE IF b.cnt = 0 THEN TRUE
    ELSE a.sum < b.sum

\* a.mean < b.mean, a mean being sum / cnt, and float('inf') when cnt = 0
MeanLess(a, b) ==
    IF a.cnt = 0 THEN FALSE
    ELSE IF b.cnt = 0 THEN TRUE
    ELSE a.sum * b.cnt < b.sum * a.cnt

RECURSIVE InsertSorted(_, _)
\* x put after the entries that are not greater than it
InsertSorted(x, s) ==
    IF s = << >> THEN << x >>
    ELSE IF MeanLess(x, s[1]) THEN << x >> \o s
    ELSE << s[1] >> \o InsertSorted(x, Tail(s))

RECURSIVE Sorted(_, _)
\* sorted(items, key=mean): stable
Sorted(items, k) ==
    IF k = 0 THEN << >>
    ELSE InsertSorted(items[k], Sorted(items, k - 1))

\* whether generate_summary keeps a model: "if model_rows:"
Kept(model_rows) == model_rows # << >>

RECURSIVE ModelStats(_, _)
\* model_stats of generate_summary, in the order of MODELS
ModelStats(rows, m) ==
    IF m > Len(MODELS) THEN << >>
    ELSE LET Mine == [i \in 1..Len(rows) |-> rows[i].Model = MODELS[m].file]
             MineSat == [i \in 1..Len(rows) |-> Mine[i] /\ SatTimed(rows[i])]
             model_rows == Select(rows, MineSat)
             entry == [desc |-> MODELS[m].desc,
                       sum |-> SumTimes(rows, model_rows, 1),
                       cnt |-> Len(model_rows),
                       solved |-> Len(model_rows),
                       total |-> Len(Select(rows, Mine))]
         IN  (IF Kept(model_rows) THEN << entry >> ELSE << >>)
                 \o ModelStats(rows, m + 1)

\* generate_summary(results_file) of benchmark.py
QuickSummary(rows) ==
    LET ms == ModelStats(rows, 1) IN
    [best |-> [n \in Sizes |-> BestOf(rows, n)],
     ranking |-> Sorted(ms, Len(ms))]

RECURSIVE Descriptions(_, _, _)
\* the keys of models_data, in the order in which the rows bring them
Descriptions(rows, i, seen) ==
    IF i > Len(rows) THEN << >>
    ELSE IF rows[i].Description \in seen THEN Descriptions(rows, i + 1, seen)
    ELSE << rows[i].Description >>
             \o Descriptions(rows, i + 1, seen \cup {rows[i].Description})

\* models_data of generate_summary_table
ModelsData(rows) ==
    LET ds == Descriptions(rows, 1, {}) IN
    [k \in 1..Len(ds) |->
        LET Mine == [i \in 1..Len(rows) |-> rows[i].Description = ds[k]]
            MineSat == [i \in 1..Len(rows) |-> Mine[i] /\ rows[i].Status = "SAT"]
            MineTimed == [i \in 1..Len(rows) |-> Mine[i] /\ SatTimed(rows[i])]
            times == Select(rows, MineTimed)
        IN  [desc |-> ds[k],
             sum |-> SumTimes(rows, times, 1),
             cnt |-> Len(times),
             solved |-> Len(Select(rows, MineSat)),
             total |-> Len(Select(rows, Mine))]]

\* generate_summary_table(results, output_dir) of visualize.py: the rows of
\* the two tables of summary.txt
SummaryTable(rows) ==
    LET md == ModelsData(rows)
        present == { rows[i].N[1] : i \in 1..Len(rows) }
    IN  [table |-> Sorted(md, Len(md)),
         tbest |-> [n \in present |->
                      LET b == BestOf(rows, n) IN
                      IF b = 0 THEN [row |-> 0, nodes |-> 0]
                      ELSE [row |-> b, nodes |-> ReadNodes(rows[b])]]]

\* main of benchmark.py ends with generate_summary(results_file)
GenerateSummary ==
    /\ pc = "summary"
    /\ summary' = [summary EXCEPT !.best = QuickSummary(disk).best,
                                  !.ranking = QuickSummary(disk).ranking]
    /\ pc' = "done"
    /\ UNCHANGED procs
    /\ UNCHANGED << modelExists, dataExists, mi, ni, raw, stats, li, pending,
                    disk, skipped >>

\* visualize.py is run on the results file
Visualize ==
    /\ pc = "done"
    /\ summary' = [summary EXCEPT !.table = SummaryTable(disk).table,
                                  !.tbest = SummaryTable(disk).tbest]
    /\ pc' = "visualized"
    /\ UNCHANGED procs
    /\ UNCHANGED << modelExists, dataExists, mi, ni, raw, stats, li, pending,
                    disk, skipped >>

\* --------------------------------------------------------- specifications
\* A step of the batch of main, each run ending one of the ways of BatchRaws.
BatchStep ==
    \/ SkipModel
    \/ SkipData
    \/ Launch
    \/ Return(BatchRaws)
    \/ WriteRow
    \/ Flush
    \/ CloseFile

\* The batch, its summary, and the summary table made from its file.
Next ==
    \/ BatchStep
    \/ GenerateSummary
    \/ Visualize

Spec == Init /\ [][Next]_vars

\* The first run of a batch whose files are all there, ending any of the
\* ways of RunRaws.
InitRun ==
    /\ Init
    /\ modelExists = ModelFiles
    /\ dataExists = Sizes

NextRun ==
    \/ (disk = << >> /\ Launch)
    \/ Return(RunRaws)
    \/ WriteRow
    \/ Flush

SpecRun == InitRun /\ [][NextRun]_vars

\* the scan of run_minizinc alone, line by line, over any text of ScanLines
KeySets ==
    {{"nodes"}, {"fails"}, {"propagates"}, {"solveTime"},
     {"nodes", "failures"}}

ScanLines == { Line(ks, t, 0) : ks \in KeySets, t \in Tokens } \cup {Marker, Other}

InitScan ==
    /\ modelExists = ModelFiles
    /\ dataExists = Sizes
    /\ pc = "scan"
    /\ mi = 1
    /\ ni = 1
    /\ raw \in { Completed(0, out, FALSE, 0) : out \in SeqsUpTo(ScanLines, MaxLines) }
    /\ stats = InitialStats(0)
    /\ li = 1
    /\ pending = << >>
    /\ disk = << >>
    /\ skipped = 0
    /\ summary = NoSummary
    /\ procs = NoProcs

\* one iteration of the for-loop over the lines
ScanStep ==
    /\ pc = "scan"
    /\ li <= Len(raw.stdout)
    /\ stats' = ScanLine(stats, raw.stdout[li])
    /\ li' = li + 1
    /\ UNCHANGED procs
    /\ UNCHANGED << modelExists, dataExists, pc, mi, ni, raw, pending, disk,
                    skipped, summary >>

\* the for-loop ends and the status is set
ScanEnd ==
    /\ pc = "scan"
    /\ li > Len(raw.stdout)
    /\ stats' = Classify(stats, raw)
    /\ pc' = "returned"
    /\ UNCHANGED procs
    /\ UNCHANGED << modelExists, dataExists, mi, ni, raw, li, pending, disk,
                    skipped, summary >>

NextScan ==
    \/ ScanStep
    \/ ScanEnd

SpecScan == InitScan /\ [][NextScan]_vars

\* ------------------------------------------------------------------ claims
\* the epsilon of the claims: the one second of "timeout - 1"
EpsUnits == UnitsPerSec

Rows == disk \o pending

(* C1: every persisted record with Status = TIMEOUT has a persisted time   *)
(* of at least T - epsilon.                                                *)
C1_TimeoutRecordsLastT ==
    \A i \in 1..Len(Rows) :
        Rows[i].Status = "TIMEOUT" =>
            /\ Rows[i].Time # Empty
            /\ FloatCell(Rows[i].Time) >= TimeoutUnits - EpsUnits

\* the decision table of the claim, its rows taken in order
TableStatus(r) ==
    IF r.kind = "exception" THEN "ERROR"
    ELSE IF r.kind = "expired" THEN "TIMEOUT"
    ELSE IF r.returncode = 0 /\ CountMarkers(r.stdout) >= 1 THEN "SAT"
    ELSE IF r.returncode = 0 THEN "UNSAT"
    ELSE IF r.elapsed >= TimeoutUnits - EpsUnits THEN "TIMEOUT"
    ELSE "ERROR"

C3_SolutionCount ==
    /\ \A i \in 1..Len(Rows) :
          IF Rows[i].Status = "SAT" THEN Rows[i].Solutions[1] >= 1
          ELSE Rows[i].Solutions = << 0 >>
    /\ pc = "written" /\ stats.status = "SAT" =>
          Rows[Len(Rows)].Solutions = << CountMarkers(raw.stdout) >>

\* a SAT row written for a text that holds more markers than lines
C3_Witness ==
    /\ pc = "written"
    /\ Rows[Len(Rows)].Status = "SAT"
    /\ Rows[Len(Rows)].Solutions[1] > Len(raw.stdout)

(* C4: the time of an outcome is the duration the runner measured around   *)
(* the process; nothing the child printed replaces or alters it.           *)
C4_TimeIsRunnerClock ==
    pc = "returned" /\ raw.kind = "completed" => stats.time = raw.elapsed

\* ------------------------------------------------------- claims, the batch
\* the indices of the rows of model file f and size n
RowsOf(f, n) == { i \in 1..Len(Rows) : Rows[i].Model = f /\ Rows[i].N = << n >> }

(* C5: whatever files are missing, the batch runs to its end: until the    *)
(* results file is closed a step of the batch is always possible; a        *)
(* RunSpec whose model or data file is absent is skipped, every other      *)
(* RunSpec leaves exactly one record whatever its outcome, and the number  *)
(* of records is the number of RunSpecs minus the skipped ones.            *)
C5_BatchCompletes ==
    /\ pc \notin {"summary", "done", "visualized"} => ENABLED BatchStep
    /\ pc \in {"summary", "done", "visualized"} =>
          /\ pending = << >>
          /\ Len(disk) = Len(MODELS) * Len(N_VALUES) - skipped
          /\ \A m \in 1..Len(MODELS), n \in Sizes :
                Cardinality(RowsOf(MODELS[m].file, n)) =
                    IF MODELS[m].file \in modelExists /\ n \in dataExists
                    THEN 1 ELSE 0

\* a finished batch that skipped a missing data file and recorded an ERROR
\* and a TIMEOUT among its outcomes
C5_Witness ==
    /\ pc = "done"
    /\ modelExists = ModelFiles
    /\ dataExists # Sizes
    /\ skipped > 0
    /\ \E i, j \in 1..Len(disk) :
          disk[i].Status = "ERROR" /\ disk[j].Status = "TIMEOUT"

\* ---- the per-model summary
\* the rows of description d, the solved ones, and their mean as sum / count
OfDesc(d) == { i \in 1..Len(disk) : disk[i].Description = d }
SolvedOf(d) == { i \in OfDesc(d) : disk[i].Status = "SAT" }

RECURSIVE SetSum(_)
SetSum(S) ==
    IF S = {} THEN 0
    ELSE LET i == CHOOSE x \in S : TRUE
         IN  FloatCell(disk[i].Time) + SetSum(S \ {i})

\* the mean of a is at most the mean of b (both have solved runs)
MeanLeq(a, b) ==
    SetSum(SolvedOf(a)) * Cardinality(SolvedOf(b))
        <= SetSum(SolvedOf(b)) * Cardinality(SolvedOf(a))

Descs == { MODELS[m].desc : m \in 1..Len(MODELS) }

\* a ranking lists each description at most once, with its counts, the
\* solved ones in ascending order of their mean and the others after them
RankingOK(rk) ==
    /\ \A k, l \in 1..Len(rk) : k # l => rk[k].desc # rk[l].desc
    /\ \A k \in 1..Len(rk) :
          /\ rk[k].solved = Cardinality(SolvedOf(rk[k].desc))
          /\ rk[k].total = Cardinality(OfDesc(rk[k].desc))
    /\ \A k, l \in 1..Len(rk) :
          k < l =>
             \/ SolvedOf(rk[l].desc) = {}
             \/ /\ SolvedOf(rk[k].desc) # {}
                /\ MeanLeq(rk[k].desc, rk[l].desc)

Ranked(rk) == { rk[k].desc : k \in 1..Len(rk) }

(* C6 as claimed: in the per-model summary the models are in ascending     *)
(* order of their mean Sat time, and a model with no Sat record is left    *)
(* out of the timing sort and still reported, 0 solved of its total.       *)
C6_UnsolvedStillReported ==
    /\ pc \in {"done", "visualized"} =>
          /\ RankingOK(summary.ranking)
          /\ Ranked(summary.ranking) = { d \in Descs : OfDesc(d) # {} }
    /\ pc = "visualized" =>
          /\ RankingOK(summary.table)
          /\ Ranked(summary.table) = { d \in Descs : OfDesc(d) # {} }

(* C6, amended: both summaries list the models in ascending order of their *)
(* mean Sat time.  generate_summary_table (visualize.py) still reports a   *)
(* model with records and no Sat record, after the models that have one,   *)
(* with 0 solved of its total; generate_summary (benchmark.py) reports     *)
(* only the models with at least one Sat record.                           *)
C6_Ranking ==
    /\ pc \in {"done", "visualized"} =>
          /\ RankingOK(summary.ranking)
          /\ Ranked(summary.ranking) = { d \in Descs : SolvedOf(d) # {} }
    /\ pc = "visualized" =>
          /\ RankingOK(summary.table)
          /\ Ranked(summary.table) = { d \in Descs : OfDesc(d) # {} }

\* the first model of the catalog has records and none of them Sat, the
\* second has two: generate_summary reports the second alone, and
\* generate_summary_table the second and then the first, 0 solved of 2
C6_Witness ==
    /\ pc = "visualized"
    /\ Len(summary.ranking) = 1
    /\ summary.ranking[1].desc = MODELS[2].desc
    /\ summary.ranking[1].solved = 2
    /\ Len(summary.table) >= 2
    /\ summary.table[1].desc = MODELS[2].desc
    /\ summary.table[2].desc = MODELS[1].desc
    /\ summary.table[2].solved = 0
    /\ summary.table[2].total = 2

\* ---- best per size
\* the Sat rows of size n that have a time
Cands(n) ==
    { i \in 1..Len(disk) :
        disk[i].N = << n >> /\ disk[i].Status = "SAT" /\ disk[i].Time # Empty }

\* b is the first of the rows of S with the least time, 0 when S is empty
FirstMin(b, S) ==
    IF S = {} THEN b = 0
    ELSE /\ b \in S
         /\ \A i \in S : FloatCell(disk[b].Time) <= FloatCell(disk[i].Time)
         /\ \A i \in S : FloatCell(disk[i].Time) = FloatCell(disk[b].Time) => b <= i

(* C7: for each size n of the records, best-per-size is the Sat record of  *)
(* n with a time whose time is least, the first of them in record order    *)
(* when several tie, and "no solution found" when there is none.           *)
C7_BestPerSize ==
    /\ pc \in {"done", "visualized"} =>
          \A n \in Sizes : FirstMin(summary.best[n], Cands(n))
    /\ pc = "visualized" =>
          /\ DOMAIN summary.tbest = { disk[i].N[1] : i \in 1..Len(disk) }
          /\ \A n \in DOMAIN summary.tbest :
                FirstMin(summary.tbest[n].row, Cands(n))

\* two Sat records of one size tie on the least time, and the first one is
\* the best; another size has records and none of them Sat
C7_Witness ==
    /\ pc = "visualized"
    /\ \E n \in Sizes :
          /\ Cardinality(Cands(n)) = 2
          /\ \A i, j \in Cands(n) : disk[i].Time = disk[j].Time
          /\ summary.best[n] = 1
          /\ summary.tbest[n].row = 1
    /\ \E n \in DOMAIN summary.tbest : summary.tbest[n].row = 0

\* ---- the store
IsPrefix(s, t) == Len(s) <= Len(t) /\ SubSeq(t, 1, Len(s)) = s

(* C8: when a run's process is launched every row appended before it is   *)
(* on disk, and an append never rewrites, removes or reorders the rows     *)
(* already written: the store is a prefix of the store after the append.   *)
C8_FlushedAppendOnly ==
    /\ [](pc = "running" => pending = << >>)
    /\ [][IsPrefix(disk, disk') /\ IsPrefix(disk \o pending, disk' \o pending')]_vars

\* the process of a later run is outstanding and the earlier rows are on disk
C8_Witness ==
    /\ pc = "running"
    /\ Len(disk) >= 2
    /\ pending = << >>

\* ------------------------------------------------- claims, rows and scan
(* C9: a run outcome written as a CSV row and read back is the same        *)
(* outcome: Status and Solutions are equal, the time is equal up to the    *)
(* precision of the time cell, and nodes, failures and propagations read   *)
(* back as absent when they were absent and as 0 when they were 0.         *)
C9_RoundTrip ==
    pc = "written" =>
        LET row == pending[Len(pending)] IN
        /\ row.Status = stats.status
        /\ row.Solutions = << stats.solutions >>
        /\ stats.time = None <=> row.Time = Empty
        /\ stats.time # None =>
              /\ 2 * (FloatCell(row.Time) - stats.time) <= PrecUnits
              /\ 2 * (stats.time - FloatCell(row.Time)) <= PrecUnits
        /\ row.Failures = (IF stats.failures = None THEN Empty ELSE << stats.failures >>)
        /\ row.Propagations =
              (IF stats.propagations = None THEN Empty ELSE << stats.propagations >>)
        /\ SatTimed(row) => ReadNodes(row) = stats.nodes

\* the keys of the statistics and the words that stand for each
StatKeys == << "nodes", "failures", "propagations" >>

KeyWords(k) ==
    CASE k = "nodes" -> {"nodes"}
      [] k = "failures" -> {"failures", "fails"}
      [] k = "propagations" -> {"propagations", "propagates"}

\* line i of the text holds a word of key StatKeys[j]
Holds(i, j) == KeyWords(StatKeys[j]) \cap raw.stdout[i].has # {}

\* the lines that match the key: they hold a word of it and of no key
\* before it
Matching(j) ==
    { i \in 1..Len(raw.stdout) : Holds(i, j) /\ \A h \in 1..(j - 1) : ~Holds(i, h) }

\* the matching lines whose token is an integer
Taken(j) == { i \in Matching(j) : raw.stdout[i].tok.kind = "Int" }

Last(S) == CHOOSE i \in S : \A h \in S : h <= i

(* C10 as claimed: a key found on several lines ends with the value of the *)
(* last line that matches it, and a malformed token never aborts the scan  *)
(* and is discarded: the field of a last line that is malformed is absent. *)
C10_LastMatchWins ==
    pc = "returned" =>
        /\ li = Len(raw.stdout) + 1
        /\ \A j \in 1..Len(StatKeys) :
              stats[StatKeys[j]] =
                  IF Matching(j) = {} THEN None
                  ELSE LET t == raw.stdout[Last(Matching(j))].tok IN
                       IF t.kind = "Int" THEN t.v ELSE None

(* C10, amended: a field ends with the value of the last line that matches *)
(* its key with a token that is an integer, and is absent when there is    *)
(* none; a malformed token never aborts the scan and leaves the field as   *)
(* the earlier lines set it.  (A line matches the first of the keys nodes, *)
(* failures or fails, propagations or propagates that it contains.)        *)
C10_LastParsedWins ==
    pc = "returned" =>
        /\ li = Len(raw.stdout) + 1
        /\ \A j \in 1..Len(StatKeys) :
              stats[StatKeys[j]] =
                  IF Taken(j) = {} THEN None
                  ELSE raw.stdout[Last(Taken(j))].tok.v

\* two lines of the key nodes, the later one malformed: the earlier value stays
C10_Witness ==
    /\ pc = "returned"
    /\ Len(raw.stdout) = 2
    /\ raw.stdout[1] = Line({"nodes"}, IntTok(1), 0)
    /\ raw.stdout[2] = Line({"nodes"}, Bad, 0)
    /\ stats.nodes = 1

\* -------------------------------------------------- claims, the processes
\* the child of the current run starts a process of its own
Spawn ==
    /\ pc = "running"
    /\ procs.child
    /\ ~procs.desc
    /\ procs' = [procs EXCEPT !.desc = TRUE]
    /\ UNCHANGED << modelExists, dataExists, pc, mi, ni, raw, stats, li,
                    pending, disk, skipped, summary >>

\* a descendant left behind by a finished run ends by itself
OrphanExit ==
    /\ procs.orphans > 0
    /\ procs' = [procs EXCEPT !.orphans = @ - 1]
    /\ UNCHANGED << modelExists, dataExists, pc, mi, ni, raw, stats, li,
                    pending, disk, skipped, summary >>

\* the runs of the batch of processes: a solved one, a killed one and one
\* that could not be launched
ProcRaws == {Completed(0, << Marker >>, FALSE, PrecUnits), Expired, Failed}

\* The batch with the processes its runs start and leave behind.
NextProc ==
    \/ SkipModel
    \/ SkipData
    \/ Launch
    \/ Spawn
    \/ Return(ProcRaws)
    \/ WriteRow
    \/ Flush
    \/ CloseFile
    \/ OrphanExit

SpecProc == Init /\ [][NextProc]_vars

\* the external processes alive: the child, its descendant, the orphans
Alive ==
    (IF procs.child THEN 1 ELSE 0) + (IF procs.desc THEN 1 ELSE 0)
        + procs.orphans

\* the runs that have ended
RunsEnded == Len(Rows) + (IF pc = "returned" THEN 1 ELSE 0)

(* C11: when the timeout of a run expires the child and its whole process  *)
(* group are terminated, no descendant surviving; main goes on with a      *)
(* TIMEOUT outcome to the next RunSpec and launches nothing twice; outside *)
(* a run no external process is alive, and inside one only the child and   *)
(* what it started.                                                        *)
C11_TimeoutKillsGroup ==
    /\ pc = "returned" /\ raw.kind = "expired" =>
          stats.status = "TIMEOUT" /\ Alive = 0
    /\ pc # "running" => Alive = 0
    /\ procs.orphans = 0
    /\ procs.launches = RunsEnded + (IF pc = "running" THEN 1 ELSE 0)
    /\ \A m \in 1..Len(MODELS), n \in Sizes :
          Cardinality(RowsOf(MODELS[m].file, n)) <= 1

(* C11, the part that holds: a run whose timeout expired returns TIMEOUT   *)
(* with the child dead, every call of subprocess.run is the one run of a   *)
(* RunSpec that leaves one row, and the runner waits for one child at most.*)
C11_ChildKilledNoRetry ==
    /\ pc = "returned" /\ raw.kind = "expired" =>
          stats.status = "TIMEOUT" /\ ~procs.child /\ ~procs.desc
    /\ procs.child => pc = "running"
    /\ procs.launches = RunsEnded + (IF pc = "running" THEN 1 ELSE 0)
    /\ \A m \in 1..Len(MODELS), n \in Sizes :
          Cardinality(RowsOf(MODELS[m].file, n)) <= 1

====
